---- MODULE Spec2Model ----
(***************************************************************************)
(* Model of src/bot.py: a supervisor process (main) that starts one worker *)
(* process per user cookie file; every worker loads its cookies, opens a   *)
(* browser, sends chat messages in an endless loop, saves the browser's    *)
(* cookies after every message and once more when it shuts down.           *)
(*                                                                         *)
(* Text is modelled as sequences of one-character strings, so that the     *)
(* cookie file format (load_user_cookies / save_user_cookies) is computed  *)
(* the way the code computes it.                                           *)
(***************************************************************************)
EXTENDS Integers, Sequences, FiniteSets, TLC

(* ------------------------------ bounds -------------------------------- *)

\* message_count grows without bound in the code; the model stops selecting
\* new messages once it reaches MaxCount.
MaxCount == 2

\* A record whose load and save are compared has at most MaxLines lines.
MaxLines == 2

(* ------------------------- text and cookie files ---------------------- *)

\* Code points of the characters used, for sorted() on cookie names.
CharCode(c) ==
    CASE c = " " -> 32
      [] c = "#" -> 35
      [] c = "1" -> 49
      [] c = "2" -> 50
      [] c = "a" -> 97
      [] c = "b" -> 98

IsSpace(c) == c = " "

\* str.lstrip / str.rstrip / str.strip on whitespace.
RECURSIVE LStrip(_)
LStrip(s) ==
    IF s # <<>> /\ IsSpace(Head(s)) THEN LStrip(Tail(s)) ELSE s

RECURSIVE RStrip(_)
RStrip(s) ==
    IF s # <<>> /\ IsSpace(s[Len(s)]) THEN RStrip(SubSeq(s, 1, Len(s) - 1)) ELSE s

Strip(s) == LStrip(RStrip(s))

\* Length of the longest prefix of s without whitespace.
RECURSIVE TokenLen(_)
TokenLen(s) ==
    IF s = <<>> \/ IsSpace(Head(s)) THEN 0 ELSE 1 + TokenLen(Tail(s))

\* line.split(maxsplit=1) on a stripped line: the first token, and, when
\* something follows the whitespace after it, the remainder as second part.
SplitOnce(s) ==
    LET n    == TokenLen(s)
        rest == LStrip(SubSeq(s, n + 1, Len(s)))
    IN  IF s = <<>> THEN <<>>
        ELSE IF rest = <<>> THEN <<SubSeq(s, 1, n)>>
        ELSE <<SubSeq(s, 1, n), rest>>

EmptyCookies == [n \in {} |-> <<>>]

\* cookies[name] = value
SetCookie(cookies, name, value) ==
    [n \in DOMAIN cookies \cup {name} |-> IF n = name THEN value ELSE cookies[n]]

\* The body of the loop of load_user_cookies over the lines of the file.
RECURSIVE ParseLines(_, _)
ParseLines(lines, cookies) ==
    IF lines = <<>> THEN cookies
    ELSE LET line  == Strip(Head(lines))
             parts == SplitOnce(line)
         IN  IF line # <<>> /\ Head(line) # "#" /\ Len(parts) = 2
             THEN ParseLines(Tail(lines), SetCookie(cookies, parts[1], parts[2]))
             ELSE ParseLines(Tail(lines), cookies)

\* A cookie file: whether it exists, and its lines (without the newlines).
NoFile == [exists |-> FALSE, lines |-> <<>>]

FileOf(lines) == [exists |-> TRUE, lines |-> lines]

load_user_cookies(user_file) ==
    IF user_file.exists THEN ParseLines(user_file.lines, EmptyCookies)
    ELSE EmptyCookies

\* Lexicographic order of strings by code point (str.__lt__).
RECURSIVE StrLess(_, _)
StrLess(s, t) ==
    IF t = <<>> THEN FALSE
    ELSE IF s = <<>> THEN TRUE
    ELSE IF Head(s) = Head(t) THEN StrLess(Tail(s), Tail(t))
    ELSE CharCode(Head(s)) < CharCode(Head(t))

\* sorted(cookies.items()): the names in increasing order.
RECURSIVE SortedNames(_)
SortedNames(names) ==
    IF names = {} THEN <<>>
    ELSE LET least == CHOOSE n \in names : \A m \in names \ {n} : StrLess(n, m)
         IN  <<least>> \o SortedNames(names \ {least})

\* Mutant of LinesOf: name and value are written without the blank between.
RECURSIVE LinesOfJoined(_, _)
LinesOfJoined(names, cookies) ==
    IF names = <<>> THEN <<>>
    ELSE <<Head(names) \o cookies[Head(names)]>> \o LinesOfJoined(Tail(names), cookies)

\* The lines save_user_cookies writes: f"{name} {value}\n" per cookie.
RECURSIVE LinesOf(_, _)
LinesOf(names, cookies) ==
    IF names = <<>> THEN <<>>
    ELSE <<Head(names) \o <<" ">> \o cookies[Head(names)]>>
         \o LinesOf(Tail(names), cookies)

CookieLines(cookies) == LinesOf(SortedNames(DOMAIN cookies), cookies)

\* The file save_user_cookies leaves when nothing interrupts it.
save_user_cookies(cookies) == FileOf(CookieLines(cookies))

(* ------------------------------ inputs -------------------------------- *)

\* get_user_files: the sorted user*.txt files of the users directory; a
\* worker is named by the position of its file in this list.
user_files == <<"user1.txt", "user2.txt">>

Workers == 1..Len(user_files)

\* Contents a user file can have when the program starts.
InitFiles ==
    { NoFile,
      FileOf(<<>>),
      FileOf(<< <<"#", "a">>, <<>>, <<" ">>, <<"a">> >>),
      FileOf(<< <<"#">>, <<" ", "b", " ", " ", "1", " ", "2", " ">>, <<"a", " ", "1">> >>) }

\* What driver.get_cookies() can return, as a name -> value mapping
\* (get_all_cookies_from_driver).  A cookie's value may be empty.
Cookie1(n, v) == SetCookie(EmptyCookies, n, v)

SessionSnapshots ==
    { SetCookie(Cookie1(<<"b">>, <<"1">>), <<"a">>, <<"2">>),
      Cookie1(<<"b">>, <<>>) }

\* read_lines(args.greetings), read_lines(args.phrases): the non-blank
\* lines of the two message files; either file may hold no message.
GreetingPools == { {}, {"hi"} }

PhrasePools == { {}, {"a", "b"} }

\* The lines of the records whose load and save are compared: blank lines,
\* comments, lines without a value, lines with blanks around and inside.
RecordLines ==
    { <<>>,
      <<"#", "a">>,
      <<"a">>,
      <<"a", " ", "1">>,
      <<"a", " ", "2">>,
      <<"b", " ", "#">>,
      <<" ", "b", " ", " ", "1", " ", "2", " ">>,
      <<" ", "a", " ", " ", "#", "1">> }

Records ==
    { NoFile } \cup
    { FileOf(lines) : lines \in UNION { [1..n -> RecordLines] : n \in 0..MaxLines } }

\* What get_user_files can return: no file at all, or the files of user_files.
UserFileLists == { <<>>, user_files }

\* A message file: whether it exists, and its non-blank lines, stripped.
MessageFiles(pools) ==
    { [exists |-> FALSE, lines |-> {}] } \cup { [exists |-> TRUE, lines |-> p] : p \in pools }

\* The position in user_files of the file named name.
RecordOf(name) == CHOOSE i \in Workers : user_files[i] = name

\* The runs checked.  args.min_interval <= args.max_interval, both positive,
\* is what the command line is documented to take.  Every combination of
\* user files runs with min_interval = max_interval; a real range of
\* intervals runs with one bot that has cookies and one that has none.
Runs ==
    { [files |-> f, min_interval |-> 1, max_interval |-> 1] : f \in [Workers -> InitFiles] }
    \cup
    { [files |-> [w \in Workers |->
                    IF w = 1 THEN FileOf(<< <<"a", " ", "1">> >>) ELSE NoFile],
       min_interval |-> 1, max_interval |-> 2] }

(* ------------------------------- state -------------------------------- *)

VARIABLES
    \* main()
    mainpc,          \* where main is: "files", "greetings", "phrases", "launch", "join",
                     \* "terminate", "grace", or ended: "exit", "exit1", "notfound", "crashed"
    found,           \* main's user_files: what get_user_files returned (<<>> before the call)
    missing,         \* read_lines found a message file missing
    min_interval,    \* args.min_interval
    max_interval,    \* args.max_interval
    idx,             \* position of the loop main is in, over user_files or procs
    procs,           \* the started workers, in start order
    greetings,       \* the greetings pool
    phrases,         \* the phrases pool
    \* worker(user_file, ...), one per w \in Workers
    pc,              \* where the worker is
    user_file,       \* the worker's argument user_file ("" before the worker is started)
    delay,           \* the worker's argument delay
    interval,        \* the interval the worker sleeps (0 while it does not)
    file,            \* the content of the worker's user file
    cookies,         \* the loaded cookies
    driver,          \* "none" (driver = None), "open", "closed" (after driver.quit())
    message_count,
    message,         \* the message selected last ("" before the first)
    updated_cookies, \* <<>> while unassigned, <<c>> once assigned the mapping c
    exitAs,          \* "none" before the finally block; in it, how the worker ends
    \* history, for the properties
    initFile,        \* the user file as it was when the program started
    before,          \* during a save, the user file as it was when the save opened it
    drawnFrom,       \* the pool the last message was selected from
    selections,      \* messages selected so far: 0, 1, or 2 for "more than one"
    owedPersist,     \* successful sends minus persist attempts made in the loop
    finalAttempts,   \* persist attempts made in the finally block
    closeCalls,      \* calls of driver.quit()
    cancelledInWait, \* main began stopping the bots while the worker slept in its interval
    cancelledInCooldown, \* a stop signal took the worker from its 30 s cooldown to its
                     \* finally block, whose attempt to save has not begun yet
    sinceStart,      \* whole seconds the worker has slept in its start delay
    \* load and save of one record, for the laws of the file format
    lawpc,           \* "start", "loaded", "saved", "reloaded"
    record,          \* the content of the record
    loaded,          \* <<>>, or <<c>> once the record was loaded as c
    reloaded         \* <<>>, or <<c>> once the saved record was loaded again as c

\* What main establishes before it starts the workers.
startVars == <<found, missing, greetings, phrases, min_interval, max_interval>>

mainVars == <<mainpc, idx, procs, startVars>>

workerVars == <<pc, file, cookies, driver, message_count, message, updated_cookies, exitAs>>

historyVars ==
    <<initFile, before, drawnFrom, selections, owedPersist, finalAttempts, closeCalls,
      cancelledInWait>>

argVars == <<user_file, delay>>

lawVars == <<lawpc, record, loaded, reloaded>>

programVars ==
    <<mainVars, workerVars, historyVars, argVars, interval, sinceStart, cancelledInCooldown>>

vars ==
    <<mainVars, workerVars, historyVars, argVars, interval, sinceStart,
      cancelledInCooldown, lawVars>>

Terminal == {"Failed", "Stopped", "Crashed", "Killed"}

\* Process.is_alive(): started and not ended.
Alive(w) == pc[w] \notin Terminal \cup {"unstarted"}

MainAlive == mainpc \notin {"exit", "exit1", "notfound", "crashed"}

At(w, p) == pc[w] = p

InFinally(w) == exitAs[w] # "none"

\* Nothing of the laws of the file format is in progress.
NoLaw ==
    /\ lawpc = "start"
    /\ record = NoFile
    /\ loaded = <<>>
    /\ reloaded = <<>>

\* main is about to call get_user_files; the user files are f and the
\* interval arguments lo and hi.
Start(f, lo, hi) ==
    /\ mainpc = "files"
    /\ idx = 1
    /\ procs = <<>>
    /\ found = <<>>
    /\ missing = FALSE
    /\ greetings = {}
    /\ phrases = {}
    /\ min_interval = lo
    /\ max_interval = hi
    /\ pc = [w \in Workers |-> "unstarted"]
    /\ user_file = [w \in Workers |-> ""]
    /\ delay = [w \in Workers |-> 0]
    /\ interval = [w \in Workers |-> 0]
    /\ file = f
    /\ cookies = [w \in Workers |-> EmptyCookies]
    /\ driver = [w \in Workers |-> "none"]
    /\ message_count = [w \in Workers |-> 0]
    /\ message = [w \in Workers |-> ""]
    /\ updated_cookies = [w \in Workers |-> <<>>]
    /\ exitAs = [w \in Workers |-> "none"]
    /\ initFile = file
    /\ before = file
    /\ drawnFrom = [w \in Workers |-> "none"]
    /\ selections = [w \in Workers |-> 0]
    /\ owedPersist = [w \in Workers |-> 0]
    /\ finalAttempts = [w \in Workers |-> 0]
    /\ closeCalls = [w \in Workers |-> 0]
    /\ cancelledInWait = [w \in Workers |-> FALSE]
    /\ cancelledInCooldown = [w \in Workers |-> FALSE]
    /\ sinceStart = [w \in Workers |-> 0]

Init ==
    /\ \E run \in Runs : Start(run.files, run.min_interval, run.max_interval)
    /\ NoLaw

(* ------------------------------- worker ------------------------------- *)

\* Mutant of StartPlace: the worker does not sleep its delay.
StartPlaceNoSleep(secs) == "load"

\* "if delay > 0: time.sleep(delay)", then the try block.
StartPlace(secs) == IF secs > 0 THEN "delay" ELSE "load"

\* Mutant of FinallyStart: the driver is closed before the cookies are saved.
FinallyStartCloseFirst(d, outcome) == IF d # "none" THEN "quit" ELSE outcome

\* The finally block: with a driver, the cookies are saved first and the
\* driver is closed after that; without one, the worker just ends.
FinallyStart(d, outcome) == IF d # "none" THEN "extract" ELSE outcome

\* How the worker ends after the finally block it entered with driver d.
FinallyExit(d, outcome) == IF d # "none" THEN outcome ELSE "none"

\* Mutant of AfterLoad: the check for an empty mapping is missing.
AfterLoadUnchecked(c) == "create"

\* "if not cookies: return", else on to create_driver.
AfterLoad(c) == IF c = EmptyCookies THEN "Failed" ELSE "create"

\* Mutant of AfterPersist: in the loop the attempt is followed by the cooldown.
AfterPersistCooldown(e) == IF e = "none" THEN "cooldown" ELSE "quit"

\* After the attempt to save the cookies: in the loop the interval sleep, in
\* the finally block driver.quit().
AfterPersist(e) == IF e = "none" THEN "wait" ELSE "quit"

\* "if message_count == 0: random.choice(greetings) else: random.choice(phrases)"
PoolName(count) == IF count = 0 THEN "greetings" ELSE "phrases"

\* Mutant of CountAfterSelect: the increment is missing.
CountAfterSelectSame(count) == count

\* "message_count += 1", before send_chat_message is called.
CountAfterSelect(count) == count + 1

\* Mutant of SendErrorPlace: an error of the loop ends the worker.
SendErrorPlaceFatal == "Failed"

\* Mutant of SendErrorPlace: the cookies are saved after a failed send too.
SendErrorPlacePersist == "extract"

\* "except Exception" of the loop: log, then time.sleep(30).
SendErrorPlace == "cooldown"

\* Mutant of InterruptPlace: the loop's "except" swallows the KeyboardInterrupt
\* raised in the interval sleep like any other error.
InterruptPlaceSwallowed(p, e, d) ==
    IF p = "wait" THEN "cooldown"
    ELSE IF p = "delay" \/ e # "none" THEN "Crashed"
    ELSE IF d # "none" THEN "extract" ELSE "Stopped"

\* Mutant of InterruptPlace: a KeyboardInterrupt raised in the cooldown only
\* ends the sleep, and the loop goes on.
InterruptPlaceCooldownRetry(p, e, d) ==
    IF p = "cooldown" THEN "select"
    ELSE IF p = "delay" \/ e # "none" THEN "Crashed"
    ELSE IF d # "none" THEN "extract" ELSE "Stopped"

\* Where a KeyboardInterrupt raised at place p takes the worker.  The sleep
\* before the try block and the finally block have no handler for it: the
\* process ends with the exception.  Everywhere else one of the two
\* "except KeyboardInterrupt" clauses catches it and the finally block runs.
InterruptPlace(p, e, d) ==
    IF p = "delay" \/ e # "none" THEN "Crashed" ELSE FinallyStart(d, "Stopped")

InterruptExit(p, e, d) ==
    IF p = "delay" \/ e # "none" THEN "none" ELSE FinallyExit(d, "Stopped")

Bump(n) == IF n < 2 THEN n + 1 ELSE 2

\* A process that has ended has no variables any more: what the workers'
\* variable f holds once the workers are at the places newpc, v0 standing
\* for "no value".
Locals(f, newpc, v0) == [w \in Workers |-> IF newpc[w] \in Terminal THEN v0 ELSE f[w]]

\* The variables of the processes that end in this step are dropped; an
\* interrupted save is no longer in progress, nor an interrupted sleep; a
\* worker taken from its cooldown to its finally block was cancelled there.
EndProcesses ==
    /\ cookies' = Locals(cookies, pc', EmptyCookies)
    /\ message_count' = Locals(message_count, pc', 0)
    /\ message' = Locals(message, pc', "")
    /\ updated_cookies' = Locals(updated_cookies, pc', <<>>)
    /\ drawnFrom' = Locals(drawnFrom, pc', "none")
    /\ selections' = Locals(selections, pc', 0)
    /\ owedPersist' = Locals(owedPersist, pc', 0)
    /\ before' = [w \in Workers |-> IF pc'[w] = "writing" THEN before[w] ELSE file[w]]
    /\ sinceStart' = Locals(sinceStart, pc', 0)
    /\ cancelledInCooldown' =
           [w \in Workers |->
               /\ pc'[w] \notin Terminal
               /\ cancelledInCooldown[w] \/ (pc[w] = "cooldown" /\ exitAs'[w] # "none")]
    /\ interval' = [w \in Workers |-> IF pc'[w] = "wait" THEN interval[w] ELSE 0]

\* time.sleep(delay) returns.
DelayElapsed(w) ==
    /\ At(w, "delay")
    /\ sinceStart[w] >= delay[w]
    /\ pc' = [pc EXCEPT ![w] = "load"]
    /\ UNCHANGED <<mainVars, historyVars>>
    /\ UNCHANGED <<file, cookies, driver, message_count, message, updated_cookies, exitAs>>
    /\ UNCHANGED <<argVars, interval, sinceStart, cancelledInCooldown, lawVars>>

\* cookies = load_user_cookies(user_file); return when there are none.
LoadCookies(w) ==
    /\ At(w, "load")
    /\ cookies' = [cookies EXCEPT ![w] = load_user_cookies(file[RecordOf(user_file[w])])]
    /\ pc' = [pc EXCEPT ![w] = AfterLoad(cookies'[w])]
    /\ UNCHANGED <<mainVars, historyVars>>
    /\ UNCHANGED <<file, driver, message_count, message, updated_cookies, exitAs>>
    /\ UNCHANGED <<argVars, interval, sinceStart, cancelledInCooldown, lawVars>>

\* load_user_cookies raises (the file cannot be opened or decoded): "Fatal error".
LoadError(w) ==
    /\ At(w, "load")
    /\ pc' = [pc EXCEPT ![w] = FinallyStart(driver[w], "Failed")]
    /\ exitAs' = [exitAs EXCEPT ![w] = FinallyExit(driver[w], "Failed")]
    /\ UNCHANGED <<mainVars, historyVars>>
    /\ UNCHANGED <<file, cookies, driver, message_count, message, updated_cookies>>
    /\ UNCHANGED <<argVars, interval, sinceStart, cancelledInCooldown, lawVars>>

\* driver = create_driver(headless=headless)
CreateDriver(w) ==
    /\ At(w, "create")
    /\ driver' = [driver EXCEPT ![w] = "open"]
    /\ pc' = [pc EXCEPT ![w] = "bootstrap"]
    /\ UNCHANGED <<mainVars, historyVars>>
    /\ UNCHANGED <<file, cookies, message_count, message, updated_cookies, exitAs>>
    /\ UNCHANGED <<argVars, interval, sinceStart, cancelledInCooldown, lawVars>>

\* create_driver raises: driver is still None, "Fatal error", and the finally
\* block has nothing to do.
CreateDriverError(w) ==
    /\ At(w, "create")
    /\ pc' = [pc EXCEPT ![w] = FinallyStart(driver[w], "Failed")]
    /\ exitAs' = [exitAs EXCEPT ![w] = FinallyExit(driver[w], "Failed")]
    /\ EndProcesses
    /\ UNCHANGED <<mainVars, file, driver, initFile, finalAttempts, closeCalls,
                   cancelledInWait>>
    /\ UNCHANGED <<argVars, lawVars>>

\* load_cookies_to_driver, driver.get, wait_for_chat_ready and the initial
\* modal all pass: message_count = 0 and the loop starts.
Bootstrap(w) ==
    /\ At(w, "bootstrap")
    /\ message_count' = [message_count EXCEPT ![w] = 0]
    /\ pc' = [pc EXCEPT ![w] = "select"]
    /\ UNCHANGED <<mainVars, historyVars>>
    /\ UNCHANGED <<file, cookies, driver, message, updated_cookies, exitAs>>
    /\ UNCHANGED <<argVars, interval, sinceStart, cancelledInCooldown, lawVars>>

\* One of them raises (navigation error, chat not ready in 30 s): "Fatal error".
BootstrapError(w) ==
    /\ At(w, "bootstrap")
    /\ pc' = [pc EXCEPT ![w] = FinallyStart(driver[w], "Failed")]
    /\ exitAs' = [exitAs EXCEPT ![w] = FinallyExit(driver[w], "Failed")]
    /\ UNCHANGED <<mainVars, historyVars>>
    /\ UNCHANGED <<file, cookies, driver, message_count, message, updated_cookies>>
    /\ UNCHANGED <<argVars, interval, sinceStart, cancelledInCooldown, lawVars>>

Pool(name) == IF name = "greetings" THEN greetings ELSE phrases

\* The top of the loop: a message is chosen and message_count incremented.
SelectMessage(w) ==
    /\ At(w, "select")
    /\ message_count[w] < MaxCount
    /\ \E m \in Pool(PoolName(message_count[w])) :
           message' = [message EXCEPT ![w] = m]
    /\ message_count' = [message_count EXCEPT ![w] = CountAfterSelect(message_count[w])]
    /\ pc' = [pc EXCEPT ![w] = "send"]
    /\ drawnFrom' = [drawnFrom EXCEPT ![w] = PoolName(message_count[w])]
    /\ selections' = [selections EXCEPT ![w] = Bump(selections[w])]
    /\ UNCHANGED mainVars
    /\ UNCHANGED <<file, cookies, driver, updated_cookies, exitAs>>
    /\ UNCHANGED <<initFile, before, owedPersist, finalAttempts, closeCalls, cancelledInWait>>
    /\ UNCHANGED <<argVars, interval, sinceStart, cancelledInCooldown, lawVars>>

\* random.choice on an empty pool raises IndexError, which the loop's
\* "except Exception" catches like a failed send.
SelectFromEmpty(w) ==
    /\ At(w, "select")
    /\ message_count[w] < MaxCount
    /\ Pool(PoolName(message_count[w])) = {}
    /\ pc' = [pc EXCEPT ![w] = SendErrorPlace]
    /\ UNCHANGED <<mainVars, historyVars>>
    /\ UNCHANGED <<file, cookies, driver, message_count, message, updated_cookies, exitAs>>
    /\ UNCHANGED <<argVars, interval, sinceStart, cancelledInCooldown, lawVars>>

\* send_chat_message(driver, message) returns.
SendOk(w) ==
    /\ At(w, "send")
    /\ pc' = [pc EXCEPT ![w] = "extract"]
    /\ owedPersist' = [owedPersist EXCEPT ![w] = @ + 1]
    /\ UNCHANGED mainVars
    /\ UNCHANGED <<file, cookies, driver, message_count, message, updated_cookies, exitAs>>
    /\ UNCHANGED <<initFile, before, drawnFrom, selections, finalAttempts, closeCalls,
                   cancelledInWait>>
    /\ UNCHANGED <<argVars, interval, sinceStart, cancelledInCooldown, lawVars>>

\* send_chat_message raises: "Error during message sending", then the cooldown.
SendError(w) ==
    /\ At(w, "send")
    /\ pc' = [pc EXCEPT ![w] = SendErrorPlace]
    /\ UNCHANGED <<mainVars, historyVars>>
    /\ UNCHANGED <<file, cookies, driver, message_count, message, updated_cookies, exitAs>>
    /\ UNCHANGED <<argVars, interval, sinceStart, cancelledInCooldown, lawVars>>

\* Mutant of randint: the interval can exceed max_interval.
randintPastMax(a, b) == a..(b + 1)

\* "interval = random.randint(min_interval, max_interval)": any integer from
\* min_interval to max_interval, both included.
randint(a, b) == a..b

\* The worker is about to be at place p: when that is the interval sleep, it
\* has chosen the interval it sleeps.
ChooseInterval(w, p) ==
    \E t \in IF p = "wait" THEN randint(min_interval, max_interval) ELSE {interval[w]} :
        interval' = [interval EXCEPT ![w] = t]

\* The attempt to save the cookies starts: one more in the loop, or the final one.
CountAttempt(w) ==
    /\ owedPersist' = [owedPersist EXCEPT ![w] = IF InFinally(w) THEN @ ELSE @ - 1]
    /\ finalAttempts' = [finalAttempts EXCEPT ![w] = IF InFinally(w) THEN @ + 1 ELSE @]
    /\ cancelledInCooldown' = [cancelledInCooldown EXCEPT ![w] = FALSE]

\* updated_cookies = get_all_cookies_from_driver(driver)
Extract(w) ==
    /\ At(w, "extract")
    /\ \E c \in SessionSnapshots :
           updated_cookies' = [updated_cookies EXCEPT ![w] = <<c>>]
    /\ pc' = [pc EXCEPT ![w] = "save"]
    /\ CountAttempt(w)
    /\ UNCHANGED mainVars
    /\ UNCHANGED <<file, cookies, driver, message_count, message, exitAs>>
    /\ UNCHANGED <<initFile, before, drawnFrom, selections, closeCalls, cancelledInWait>>
    /\ UNCHANGED <<argVars, interval, sinceStart, lawVars>>

\* get_all_cookies_from_driver raises: "Warning: Could not ... save cookies".
ExtractError(w) ==
    /\ At(w, "extract")
    /\ pc' = [pc EXCEPT ![w] = AfterPersist(exitAs[w])]
    /\ ChooseInterval(w, pc'[w])
    /\ CountAttempt(w)
    /\ UNCHANGED mainVars
    /\ UNCHANGED <<file, cookies, driver, message_count, message, updated_cookies, exitAs>>
    /\ UNCHANGED <<initFile, before, drawnFrom, selections, closeCalls, cancelledInWait>>
    /\ UNCHANGED <<argVars, sinceStart, lawVars>>

\* save_user_cookies: open(user_file, 'w') creates the file or empties it.
SaveOpen(w) ==
    /\ At(w, "save")
    /\ before' = [before EXCEPT ![w] = file[RecordOf(user_file[w])]]
    /\ file' = [file EXCEPT ![RecordOf(user_file[w])] = FileOf(<<>>)]
    /\ pc' = [pc EXCEPT ![w] = "writing"]
    /\ UNCHANGED mainVars
    /\ UNCHANGED <<cookies, driver, message_count, message, updated_cookies, exitAs>>
    /\ UNCHANGED <<initFile, drawnFrom, selections, owedPersist, finalAttempts, closeCalls,
                   cancelledInWait>>
    /\ UNCHANGED <<argVars, interval, sinceStart, cancelledInCooldown, lawVars>>

\* open raises (no permission, ...): the file is as it was.
SaveOpenError(w) ==
    /\ At(w, "save")
    /\ pc' = [pc EXCEPT ![w] = AfterPersist(exitAs[w])]
    /\ ChooseInterval(w, pc'[w])
    /\ UNCHANGED <<mainVars, historyVars>>
    /\ UNCHANGED <<file, cookies, driver, message_count, message, updated_cookies, exitAs>>
    /\ UNCHANGED <<argVars, sinceStart, cancelledInCooldown, lawVars>>

\* The lines the save in progress has to write.
ToWrite(w) == CookieLines(updated_cookies[w][1])

\* f.write(...): the next line reaches the file.
WriteLine(w) ==
    /\ At(w, "writing")
    /\ Len(file[RecordOf(user_file[w])].lines) < Len(ToWrite(w))
    /\ file' = [file EXCEPT ![RecordOf(user_file[w])] =
                   FileOf(Append(@.lines, ToWrite(w)[Len(@.lines) + 1]))]
    /\ UNCHANGED <<mainVars, historyVars>>
    /\ UNCHANGED <<pc, cookies, driver, message_count, message, updated_cookies, exitAs>>
    /\ UNCHANGED <<argVars, interval, sinceStart, cancelledInCooldown, lawVars>>

\* A write raises (disk full, ...): the file keeps the lines written so far.
WriteError(w) ==
    /\ At(w, "writing")
    /\ Len(file[RecordOf(user_file[w])].lines) < Len(ToWrite(w))
    /\ pc' = [pc EXCEPT ![w] = AfterPersist(exitAs[w])]
    /\ ChooseInterval(w, pc'[w])
    /\ before' = [before EXCEPT ![w] = file[RecordOf(user_file[w])]]
    /\ UNCHANGED mainVars
    /\ UNCHANGED <<file, cookies, driver, message_count, message, updated_cookies, exitAs>>
    /\ UNCHANGED <<initFile, drawnFrom, selections, owedPersist, finalAttempts, closeCalls,
                   cancelledInWait>>
    /\ UNCHANGED <<argVars, sinceStart, cancelledInCooldown, lawVars>>

\* The with block ends after the last line: the file is closed.
SaveClose(w) ==
    /\ At(w, "writing")
    /\ Len(file[RecordOf(user_file[w])].lines) = Len(ToWrite(w))
    /\ before' = [before EXCEPT ![w] = file[RecordOf(user_file[w])]]
    /\ pc' = [pc EXCEPT ![w] = AfterPersist(exitAs[w])]
    /\ ChooseInterval(w, pc'[w])
    /\ UNCHANGED mainVars
    /\ UNCHANGED <<file, cookies, driver, message_count, message, updated_cookies, exitAs>>
    /\ UNCHANGED <<initFile, drawnFrom, selections, owedPersist, finalAttempts, closeCalls,
                   cancelledInWait>>
    /\ UNCHANGED <<argVars, sinceStart, cancelledInCooldown, lawVars>>

\* time.sleep(interval) returns.
IntervalElapsed(w) ==
    /\ At(w, "wait")
    /\ interval' = [interval EXCEPT ![w] = 0]
    /\ pc' = [pc EXCEPT ![w] = "select"]
    /\ UNCHANGED <<mainVars, historyVars>>
    /\ UNCHANGED <<file, cookies, driver, message_count, message, updated_cookies, exitAs>>
    /\ UNCHANGED <<argVars, sinceStart, cancelledInCooldown, lawVars>>

\* time.sleep(30) returns.
CooldownElapsed(w) ==
    /\ At(w, "cooldown")
    /\ pc' = [pc EXCEPT ![w] = "select"]
    /\ UNCHANGED <<mainVars, historyVars>>
    /\ UNCHANGED <<file, cookies, driver, message_count, message, updated_cookies, exitAs>>
    /\ UNCHANGED <<argVars, interval, sinceStart, cancelledInCooldown, lawVars>>

\* driver.quit() returns; the worker function ends.
Quit(w) ==
    /\ At(w, "quit")
    /\ driver' = [driver EXCEPT ![w] = "closed"]
    /\ closeCalls' = [closeCalls EXCEPT ![w] = @ + 1]
    /\ pc' = [pc EXCEPT ![w] = exitAs[w]]
    /\ exitAs' = [exitAs EXCEPT ![w] = "none"]
    /\ EndProcesses
    /\ UNCHANGED <<mainVars, file, initFile, finalAttempts, cancelledInWait>>
    /\ UNCHANGED <<argVars, lawVars>>

\* driver.quit() raises: "Warning: Error closing browser"; the browser stays.
QuitError(w) ==
    /\ At(w, "quit")
    /\ closeCalls' = [closeCalls EXCEPT ![w] = @ + 1]
    /\ pc' = [pc EXCEPT ![w] = exitAs[w]]
    /\ exitAs' = [exitAs EXCEPT ![w] = "none"]
    /\ EndProcesses
    /\ UNCHANGED <<mainVars, file, driver, initFile, finalAttempts, cancelledInWait>>
    /\ UNCHANGED <<argVars, lawVars>>

(* -------------------------------- main -------------------------------- *)

\* Mutant of AfterDiscovery: the check for an empty list is missing.
AfterDiscoveryUnchecked(f) == "greetings"

\* "if not user_files: ... sys.exit(1)", else on to the message files.
AfterDiscovery(f) == IF f = <<>> THEN "exit1" ELSE "greetings"

\* user_files = get_user_files(users_dir), and the check that follows.  No
\* file is found only when there is none; a file that was found can be gone
\* by the time its worker opens it.
GetUserFiles ==
    /\ mainpc = "files"
    /\ \E f \in UserFileLists :
           /\ f = <<>> => \A w \in Workers : ~file[w].exists
           /\ found' = f
           /\ mainpc' = AfterDiscovery(f)
    /\ UNCHANGED <<idx, procs, missing, greetings, phrases, min_interval, max_interval>>
    /\ UNCHANGED <<workerVars, historyVars>>
    /\ UNCHANGED <<argVars, interval, sinceStart, cancelledInCooldown, lawVars>>

\* read_lines: FileNotFoundError when the file does not exist, else its
\* stripped non-blank lines.  Nothing in main catches the error.
read_lines(f) == f.lines

AfterRead(f, next) == IF f.exists THEN next ELSE "notfound"

\* greetings = read_lines(args.greetings)
ReadGreetings ==
    /\ mainpc = "greetings"
    /\ \E f \in MessageFiles(GreetingPools) :
           /\ greetings' = IF f.exists THEN read_lines(f) ELSE greetings
           /\ missing' = ~f.exists
           /\ mainpc' = AfterRead(f, "phrases")
    /\ UNCHANGED <<idx, procs, found, phrases, min_interval, max_interval>>
    /\ UNCHANGED <<workerVars, historyVars>>
    /\ UNCHANGED <<argVars, interval, sinceStart, cancelledInCooldown, lawVars>>

\* phrases = read_lines(args.phrases)
ReadPhrases ==
    /\ mainpc = "phrases"
    /\ \E f \in MessageFiles(PhrasePools) :
           /\ phrases' = IF f.exists THEN read_lines(f) ELSE phrases
           /\ missing' = ~f.exists
           /\ mainpc' = AfterRead(f, "launch")
    /\ UNCHANGED <<idx, procs, found, greetings, min_interval, max_interval>>
    /\ UNCHANGED <<workerVars, historyVars>>
    /\ UNCHANGED <<argVars, interval, sinceStart, cancelledInCooldown, lawVars>>

\* The exit status of the process, main being at the place p where it ended:
\* 0 after a return, 1 after sys.exit(1) and after an exception nobody caught.
ExitStatus(p) == IF p = "exit" THEN 0 ELSE 1

\* "delay = i * 3", i counting the user files from 0.
StaggerSeconds == 3

StaggerDelay(i) == (i - 1) * StaggerSeconds

\* Mutant of FileArg: every worker is given the first file.
FileArgFirst(i) == user_files[1]

\* "args=(user_file, ...)": the worker is given the file of its turn.
FileArg(i) == user_files[i]

\* Mutant of JoinReturns: join does not wait for the process.
JoinReturnsAtOnce(w) == TRUE

\* p.join() returns once the process has ended.
JoinReturns(w) == ~Alive(w)

\* "for i, user_file in enumerate(user_files)": Process(target=worker, ...),
\* p.start(), procs.append(p); after the last one, on to the joins.
Launch ==
    /\ mainpc = "launch"
    /\ idx <= Len(user_files)
    /\ user_file' = [user_file EXCEPT ![idx] = FileArg(idx)]
    /\ delay' = [delay EXCEPT ![idx] = StaggerDelay(idx)]
    /\ pc' = [pc EXCEPT ![idx] = StartPlace(delay'[idx])]
    /\ procs' = Append(procs, idx)
    /\ idx' = IF idx = Len(user_files) THEN 1 ELSE idx + 1
    /\ mainpc' = IF idx = Len(user_files) THEN "join" ELSE "launch"
    /\ UNCHANGED <<startVars, historyVars>>
    /\ UNCHANGED <<file, cookies, driver, message_count, message, updated_cookies, exitAs>>
    /\ UNCHANGED <<interval, sinceStart, cancelledInCooldown, lawVars>>

\* One second passes for the workers that sleep their start delay.  Only
\* what time.sleep(delay) guarantees is kept of time: the sleep does not
\* return before delay seconds have passed.
Tick ==
    /\ \E w \in Workers : pc[w] = "delay" /\ sinceStart[w] < delay[w]
    /\ sinceStart' = [w \in Workers |->
                         IF pc[w] = "delay" /\ sinceStart[w] < delay[w]
                         THEN sinceStart[w] + 1 ELSE sinceStart[w]]
    /\ UNCHANGED <<mainVars, workerVars, historyVars>>
    /\ UNCHANGED <<argVars, interval, cancelledInCooldown, lawVars>>

\* "for p in procs: p.join()"; main returns after the last join.
Join ==
    /\ mainpc = "join"
    /\ JoinReturns(procs[idx])
    /\ idx' = IF idx = Len(procs) THEN idx ELSE idx + 1
    /\ mainpc' = IF idx = Len(procs) THEN "exit" ELSE "join"
    /\ UNCHANGED <<procs, startVars, workerVars, historyVars>>
    /\ UNCHANGED <<argVars, interval, sinceStart, cancelledInCooldown, lawVars>>

\* Where a KeyboardInterrupt takes main: from the try block to its
\* "except KeyboardInterrupt" ("Stopping all bots..."); inside that handler
\* nothing catches it.
MainInterruptPlace(p) ==
    IF p \in {"launch", "join"} THEN "terminate"
    ELSE IF p \in {"files", "greetings", "phrases", "terminate", "grace"} THEN "crashed"
    ELSE p

\* "for p in procs: if p.is_alive(): p.terminate()": SIGTERM ends the worker
\* where it is; no except or finally clause of it runs.
Terminate ==
    /\ mainpc = "terminate"
    /\ idx <= Len(procs)
    /\ pc' = [pc EXCEPT ![procs[idx]] = IF Alive(procs[idx]) THEN "Killed" ELSE @]
    /\ exitAs' = [exitAs EXCEPT ![procs[idx]] = "none"]
    /\ idx' = idx + 1
    /\ EndProcesses
    /\ UNCHANGED <<mainpc, procs, startVars>>
    /\ UNCHANGED <<file, driver, initFile, finalAttempts, closeCalls, cancelledInWait>>
    /\ UNCHANGED <<argVars, lawVars>>

\* The terminate loop is over: on to "for p in procs: p.join(timeout=5)".
TerminateDone ==
    /\ mainpc = "terminate"
    /\ idx > Len(procs)
    /\ mainpc' = "grace"
    /\ idx' = 1
    /\ UNCHANGED <<procs, startVars, workerVars, historyVars>>
    /\ UNCHANGED <<argVars, interval, sinceStart, cancelledInCooldown, lawVars>>

\* p.join(timeout=5) returns, the process ended or not.
Grace ==
    /\ mainpc = "grace"
    /\ idx <= Len(procs)
    /\ idx' = idx + 1
    /\ UNCHANGED <<mainpc, procs, startVars, workerVars, historyVars>>
    /\ UNCHANGED <<argVars, interval, sinceStart, cancelledInCooldown, lawVars>>

\* "All bots stopped!"; main returns.
GraceDone ==
    /\ mainpc = "grace"
    /\ idx > Len(procs)
    /\ mainpc' = "exit"
    /\ UNCHANGED <<idx, procs, startVars, workerVars, historyVars>>
    /\ UNCHANGED <<argVars, interval, sinceStart, cancelledInCooldown, lawVars>>

\* Ctrl+C: the terminal sends SIGINT to main and to every running worker,
\* and a KeyboardInterrupt is raised in each of them where it is.
StopSignal ==
    /\ MainAlive \/ \E w \in Workers : Alive(w)
    /\ mainpc' = MainInterruptPlace(mainpc)
    /\ idx' = IF mainpc' = "terminate" THEN 1 ELSE idx
    /\ pc' = [w \in Workers |->
                 IF Alive(w) THEN InterruptPlace(pc[w], exitAs[w], driver[w]) ELSE pc[w]]
    /\ exitAs' = [w \in Workers |->
                     IF Alive(w) THEN InterruptExit(pc[w], exitAs[w], driver[w])
                     ELSE exitAs[w]]
    /\ cancelledInWait' =
           [w \in Workers |-> cancelledInWait[w] \/ (mainpc' = "terminate" /\ pc[w] = "wait")]
    /\ EndProcesses
    /\ UNCHANGED <<procs, startVars>>
    /\ UNCHANGED <<file, driver, initFile, finalAttempts, closeCalls>>
    /\ UNCHANGED <<argVars, lawVars>>

(* ------------------------ load and save of a record -------------------- *)

\* load_user_cookies(user_file)
LoadRecord ==
    /\ lawpc = "start"
    /\ loaded' = <<load_user_cookies(record)>>
    /\ lawpc' = "loaded"
    /\ UNCHANGED <<record, reloaded, programVars>>

\* save_user_cookies(user_file, cookies) of the cookies that were loaded.
SaveLoaded ==
    /\ lawpc = "loaded"
    /\ record' = save_user_cookies(loaded[1])
    /\ lawpc' = "saved"
    /\ UNCHANGED <<loaded, reloaded, programVars>>

\* load_user_cookies(user_file) of the record that was saved.
ReloadRecord ==
    /\ lawpc = "saved"
    /\ reloaded' = <<load_user_cookies(record)>>
    /\ lawpc' = "reloaded"
    /\ UNCHANGED <<record, loaded, programVars>>

(* --------------------------- specifications --------------------------- *)

WorkerStep(w) ==
    \/ DelayElapsed(w)
    \/ LoadCookies(w)
    \/ LoadError(w)
    \/ CreateDriver(w)
    \/ CreateDriverError(w)
    \/ Bootstrap(w)
    \/ BootstrapError(w)
    \/ SelectMessage(w)
    \/ SelectFromEmpty(w)
    \/ SendOk(w)
    \/ SendError(w)
    \/ Extract(w)
    \/ ExtractError(w)
    \/ SaveOpen(w)
    \/ SaveOpenError(w)
    \/ WriteLine(w)
    \/ WriteError(w)
    \/ SaveClose(w)
    \/ IntervalElapsed(w)
    \/ CooldownElapsed(w)
    \/ Quit(w)
    \/ QuitError(w)

MainStep ==
    \/ GetUserFiles
    \/ ReadGreetings
    \/ ReadPhrases
    \/ Launch
    \/ Join
    \/ Terminate
    \/ TerminateDone
    \/ Grace
    \/ GraceDone

Next ==
    \/ MainStep
    \/ Tick
    \/ StopSignal
    \/ \E w \in Workers : WorkerStep(w)

Spec == Init /\ [][Next]_vars

\* Every send fails and Ctrl+C is never pressed: the steps that are left.
RetryStep(w) ==
    \/ DelayElapsed(w)
    \/ LoadCookies(w)
    \/ LoadError(w)
    \/ CreateDriver(w)
    \/ CreateDriverError(w)
    \/ Bootstrap(w)
    \/ BootstrapError(w)
    \/ SelectMessage(w)
    \/ SelectFromEmpty(w)
    \/ SendError(w)
    \/ Extract(w)
    \/ ExtractError(w)
    \/ SaveOpen(w)
    \/ SaveOpenError(w)
    \/ WriteLine(w)
    \/ WriteError(w)
    \/ SaveClose(w)
    \/ CooldownElapsed(w)
    \/ Quit(w)
    \/ QuitError(w)

NextAllFail ==
    \/ GetUserFiles
    \/ ReadGreetings
    \/ ReadPhrases
    \/ Launch
    \/ Join
    \/ Tick
    \/ \E w \in Workers : RetryStep(w)

\* A process that can take a step takes one: a sleep ends, a call returns or
\* raises.
SpecAllFail ==
    /\ Init
    /\ [][NextAllFail]_vars
    /\ WF_vars(GetUserFiles \/ ReadGreetings \/ ReadPhrases)
    /\ WF_vars(Launch)
    /\ WF_vars(Join)
    /\ WF_vars(Tick)
    /\ \A w \in Workers : WF_vars(RetryStep(w))

\* A record is loaded, saved as loaded and loaded again; no bot runs.
InitRoundTrip ==
    /\ Start([w \in Workers |-> NoFile], 1, 1)
    /\ lawpc = "start"
    /\ record \in Records
    /\ loaded = <<>>
    /\ reloaded = <<>>

NextRoundTrip ==
    \/ LoadRecord
    \/ SaveLoaded
    \/ ReloadRecord

SpecRoundTrip == InitRoundTrip /\ [][NextRoundTrip]_vars

(* ------------------------------- claims ------------------------------- *)

LoopPlaces == {"select", "send", "extract", "save", "writing", "wait", "cooldown"}

InLoop(w) == pc[w] \in LoopPlaces /\ ~InFinally(w)

\* C1: driver.quit() is never called, nor about to be called, before the
\* final attempt to extract and save the cookies has been made.
C1_PersistBeforeClose ==
    \A w \in Workers :
        (pc[w] = "quit" \/ closeCalls[w] > 0) => finalAttempts[w] >= 1

\* C1 witness: a worker whose bootstrap failed has made its final attempt and
\* then closed its driver.
C1_Witness ==
    \E w \in Workers :
        pc[w] = "Failed" /\ driver[w] = "closed" /\ closeCalls[w] = 1 /\ finalAttempts[w] = 1

\* C2: the first message a worker selects is drawn from greetings and every
\* later one from phrases, whatever became of the sends in between.
C2_GreetingFirst ==
    \A w \in Workers :
        /\ selections[w] = 1 => drawnFrom[w] = "greetings" /\ message[w] \in greetings
        /\ selections[w] = 2 => drawnFrom[w] = "phrases" /\ message[w] \in phrases

\* C2 witness: a worker has selected its second message, a phrase.
C2_Witness ==
    \E w \in Workers :
        pc[w] = "send" /\ selections[w] = 2 /\ drawnFrom[w] = "phrases"

\* C3 as stated: when every send fails and no stop signal arrives, a worker
\* in its cooldown attempts another send.
C3_RetriesSend ==
    \A w \in Workers :
        (pc[w] = "cooldown" /\ message_count[w] < MaxCount) ~> (pc[w] = "send")

\* C3 as amended: when every send fails and no stop signal arrives, a worker
\* in its loop stays in its loop, every failed send is followed by the
\* cooldown, and, when neither message pool is empty, the cooldown is
\* followed by another send attempt.
C3_RetriesSendGivenMessages ==
    /\ [][\A w \in Workers :
              /\ InLoop(w) => InLoop(w)'
              /\ pc[w] = "send" /\ pc'[w] # "send" => pc'[w] = "cooldown"]_vars
    /\ \A w \in Workers :
           (pc[w] = "cooldown" /\ message_count[w] < MaxCount
                /\ greetings # {} /\ phrases # {})
             ~> (pc[w] = "send")

\* C3 witness: a send has failed and the worker is in its cooldown, with
\* messages to choose from.
C3_Witness ==
    \E w \in Workers :
        /\ pc[w] = "cooldown" /\ message_count[w] = 1
        /\ greetings # {} /\ phrases # {}

\* C4: in the loop an attempt to save the cookies is owed exactly between a
\* successful send and the attempt that follows it, so there is one attempt
\* per successful send and none per failed send; the finally block makes at
\* most one more.
C4_PersistPerSend ==
    \A w \in Workers :
        /\ finalAttempts[w] <= 1
        /\ owedPersist[w] \in {0, 1}
        /\ ~InFinally(w) => owedPersist[w] = (IF pc[w] = "extract" THEN 1 ELSE 0)

\* C4 witness: after a successful send the cookies were extracted and the
\* worker sleeps its interval.
C4_Witness ==
    \E w \in Workers :
        pc[w] = "wait" /\ owedPersist[w] = 0 /\ updated_cookies[w] # <<>>

GraceWaited(w) == (mainpc = "grace" /\ idx > w) \/ mainpc = "exit"

\* C6: no worker is forcibly terminated before main has waited the grace
\* period for it.
C6_GraceBeforeTerminate ==
    \A w \in Workers : pc[w] = "Killed" => GraceWaited(w)

\* C7: while a save is in progress a load of the record returns the
\* complete previous content or the complete new content.
C7_SaveAtomic ==
    \A w \in Workers :
        pc[w] = "writing" =>
            load_user_cookies(file[w]) \in
                { load_user_cookies(before[w]), load_user_cookies(FileOf(ToWrite(w))) }

\* What worker w consists of.
WorkerState(w) ==
    <<pc[w], file[w], cookies[w], driver[w], message_count[w], message[w],
      updated_cookies[w], exitAs[w]>>

\* Worker w fails in this step: it ends as Failed, starts the finally block
\* after a fatal error, or enters the cooldown after an error in its loop.
FailureStep(w) ==
    /\ pc'[w] # pc[w]
    /\ \/ pc'[w] \in {"Failed", "cooldown"}
       \/ exitAs'[w] = "Failed" /\ exitAs[w] # "Failed"

C9_RecordIsLastExtraction ==
    \A w \in Workers :
        (updated_cookies[w] # <<>> /\ pc[w] \notin {"save", "writing"}) =>
            load_user_cookies(file[w]) = updated_cookies[w][1]

\* C10: a worker whose user file holds no cookies never creates a driver,
\* never selects or sends a message, never saves or closes anything and
\* leaves its file as it was; once past the load it has ended.
C10_NoCookiesFailsFast ==
    \A w \in Workers :
        load_user_cookies(initFile[w]) = EmptyCookies =>
            /\ pc[w] \in {"unstarted", "delay", "load"} \cup Terminal
            /\ driver[w] = "none"
            /\ file[w] = initFile[w]
            /\ message_count[w] = 0 /\ selections[w] = 0
            /\ finalAttempts[w] = 0 /\ closeCalls[w] = 0

\* C10 witness: a worker whose file holds only a comment, a blank line and
\* a line without a value has ended as Failed.
C10_Witness ==
    \E w \in Workers :
        /\ initFile[w].exists /\ initFile[w].lines # <<>>
        /\ load_user_cookies(initFile[w]) = EmptyCookies
        /\ pc[w] = "Failed"

\* C11: a record that holds at least one cookie, loaded, saved as loaded and
\* loaded again, gives the mapping of the first load.
C11_RoundTrip ==
    (lawpc = "reloaded" /\ loaded[1] # EmptyCookies) => reloaded[1] = loaded[1]

\* C11 witness: a record of two cookies, written with blanks around them and
\* out of order, has been loaded, saved and loaded again.
C11_Witness ==
    /\ lawpc = "reloaded"
    /\ DOMAIN loaded[1] = { <<"a">>, <<"b">> }
    /\ loaded[1][<<"b">>] = <<"1", " ", "2">>
    /\ record = FileOf(<< <<"a", " ", "#", "1">>, <<"b", " ", "1", " ", "2">> >>)

\* No worker was ever started.
NoWorkerStarted == procs = <<>> /\ \A w \in Workers : pc[w] = "unstarted"

\* C12: when get_user_files returns no file main ends with a non-zero exit
\* status, and when a message file is missing main ends too, in both cases
\* without having started a worker.
C12_NoFilesNoRun ==
    /\ (found = <<>> /\ mainpc \notin {"files", "crashed"}) =>
           (mainpc = "exit1" /\ ExitStatus(mainpc) # 0 /\ NoWorkerStarted)
    /\ missing =>
           (mainpc = "notfound" /\ ExitStatus(mainpc) # 0 /\ NoWorkerStarted)

\* C12 witness: there is no user file and main has ended by sys.exit(1).
C12_Witness ==
    /\ mainpc = "exit1"
    /\ found = <<>>
    /\ \A w \in Workers : ~file[w].exists

\* Worker w runs and has executed the first statement of its try block.
HasBegun(w) == Alive(w) /\ pc[w] \notin {"delay", "load"}

C14_IntervalInRange ==
    \A w \in Workers :
        pc[w] = "wait" =>
            /\ interval[w] \in Int
            /\ min_interval <= interval[w] /\ interval[w] <= max_interval
            /\ min_interval = max_interval => interval[w] = min_interval

\* C14 witness: with intervals from 1 to 2 a worker sleeps 2 seconds.
C14_Witness ==
    \E w \in Workers :
        pc[w] = "wait" /\ min_interval < max_interval /\ interval[w] = max_interval

\* C15: main starts at most one worker per user file, each with the file of
\* its turn, so no two workers have the same file; and a file changes only
\* in a step of the worker it was given to, which is saving.
C15_OneWorkerPerFile ==
    /\ [](/\ Len(procs) <= Len(user_files)
          /\ mainpc = "join" => Len(procs) = Len(found)
          /\ \A i \in 1..Len(procs) : user_file[procs[i]] = user_files[i]
          /\ \A i, j \in 1..Len(procs) :
                 i # j => procs[i] # procs[j] /\ user_file[procs[i]] # user_file[procs[j]]
          /\ \A w \in Workers : pc[w] = "unstarted" <=> \A i \in 1..Len(procs) : procs[i] # w)
    /\ [][\A k \in Workers :
              file'[k] # file[k] =>
                  \E w \in Workers :
                      /\ user_file[w] = user_files[k]
                      /\ pc[w] \in {"save", "writing"}
                      /\ \A v \in Workers \ {w} : pc'[v] = pc[v]]_vars

\* C15 witness: both workers are writing, each its own file.
C15_Witness ==
    /\ pc[1] = "writing" /\ pc[2] = "writing"
    /\ user_file[1] = "user1.txt" /\ user_file[2] = "user2.txt"
    /\ file[1] # initFile[1] /\ file[2] # initFile[2]

\* C16: when every send fails, no send has succeeded: message_count is 0
\* after every failed send and every message selected is a greeting.
C16_CountIsSends ==
    \A w \in Workers :
        /\ pc[w] = "cooldown" => message_count[w] = 0
        /\ selections[w] > 0 => drawnFrom[w] = "greetings"

\* C17: a stop signal that reaches a worker in its cooldown takes it to the
\* attempt to save the cookies of its finally block; the cooldown is left
\* no other way but by sleeping it out, and in the finally block no message
\* is selected or sent: the worker saves, closes the driver and ends.
C17_CancelInCooldown ==
    /\ [](\A w \in Workers :
              /\ cancelledInCooldown[w] =>
                     pc[w] = "extract" /\ exitAs[w] = "Stopped" /\ finalAttempts[w] = 0
              /\ InFinally(w) => pc[w] \in {"extract", "save", "writing", "quit"})
    /\ [][\A w \in Workers :
              (pc[w] = "cooldown" /\ pc'[w] # "cooldown") =>
                  \/ pc'[w] = "select" /\ exitAs'[w] = "none"
                  \/ cancelledInCooldown'[w]]_vars

\* C17 witness: a send failed, and the stop signal has taken the worker from
\* the cooldown that followed to its final attempt to save.
C17_Witness ==
    \E w \in Workers :
        cancelledInCooldown[w] /\ message_count[w] = 1 /\ pc[w] = "extract"

\* C18: in the loop, whatever becomes of the attempt to save the cookies,
\* the worker itself goes on to its interval sleep, not to the cooldown and
\* not to its end; and a send that succeeds is followed by an attempt.
C18_PersistErrorNotFatal ==
    [][\A w \in Workers :
           /\ ( /\ ~InFinally(w)
                /\ pc[w] \in {"extract", "save", "writing"}
                /\ pc'[w] \notin {"extract", "save", "writing", "Killed", "Crashed"}
                /\ exitAs'[w] # "Stopped" )
              => (pc'[w] = "wait" /\ exitAs'[w] = "none")
           /\ ( /\ pc[w] = "send"
                /\ pc'[w] \notin {"send", "cooldown", "Killed", "Crashed"}
                /\ exitAs'[w] # "Stopped" )
              => (pc'[w] = "extract" /\ exitAs'[w] = "none")]_vars

\* C18 witness: the first send succeeded, the extraction that followed
\* raised, and the worker sleeps its interval with its file as it was.
C18_Witness ==
    \E w \in Workers :
        /\ pc[w] = "wait" /\ message_count[w] = 1
        /\ updated_cookies[w] = <<>>
        /\ file[w] = initFile[w]

\* C19: a worker that created a driver has called driver.quit() once when
\* it has ended.
C19_DriverClosed ==
    \A w \in Workers :
        (pc[w] \in Terminal /\ driver[w] # "none") => closeCalls[w] = 1

\* C20: a worker without a driver leaves its file as it was; a worker whose
\* bootstrap ends by an error or a stop signal goes on to extract and save
\* the cookies of its driver, no message selected, and a save that ends in
\* the finally block leaves the file holding the cookies extracted.
C20_BootstrapFailureSaves ==
    /\ [](\A w \in Workers : driver[w] = "none" => file[w] = initFile[w])
    /\ [][\A w \in Workers :
              /\ (pc[w] = "bootstrap" /\ pc'[w] \notin {"bootstrap", "select"}) =>
                     /\ pc'[w] = "extract"
                     /\ exitAs'[w] \in {"Failed", "Stopped"}
                     /\ selections'[w] = 0
              /\ (InFinally(w) /\ pc[w] = "writing" /\ pc'[w] = "quit") =>
                     \/ file'[w] = save_user_cookies(updated_cookies[w][1])
                     \/ Len(file[w].lines) < Len(ToWrite(w))]_vars

\* C20 witness: the bootstrap raised, and the worker has replaced its file
\* by the cookies of the driver without having selected a message.
C20_Witness ==
    \E w \in Workers :
        /\ pc[w] = "quit" /\ exitAs[w] = "Failed" /\ selections[w] = 0
        /\ updated_cookies[w] # <<>>
        /\ file[w] = save_user_cookies(updated_cookies[w][1])
        /\ file[w] # initFile[w]

====
